---------------------------- MODULE Spec2Model ----------------------------
(***************************************************************************)
(* A model of four stages of the fervid template compiler:                 *)
(*   - the AST optimizer   (crates/fervid/src/analyzer/ast_optimizer.rs)   *)
(*   - directive codegen   (crates/fervid/src/compiler/codegen_directives) *)
(*   - the markup parser   (crates/fervid/src/parser/core.rs)              *)
(*   - builtin codegen     (crates/fervid_codegen/src/builtins/transition) *)
(* Each stage has its own specification (SpecOpt, SpecDir, SpecParse,      *)
(* SpecTransition); the variables of the stages a specification does not   *)
(* exercise stay at their idle values.                                     *)
(***************************************************************************)
EXTENDS Integers, Sequences, FiniteSets, TLC

VARIABLES
    \* ---- AST optimizer ----
    build,        \* "debug" | "release": whether shifts are overflow-checked
    opc,          \* "idle" | "parsed" | "optimized" | "reoptimized" | "panicked"
    original,     \* template.roots as handed to the first optimize_template
    template,     \* template.roots, mutated in place by optimize_template
    once,         \* template.roots as they were after the first run
    afterRetain,  \* children of the first root element right after `retain` (line 75)
    removed,      \* 0-based indices of the first root's children dropped by `retain`
    \* ---- directive codegen (CodegenContext) ----
    dpc,          \* "idle" | "ready" | "panicked"
    directives,   \* CodegenContext.directives: directive name -> Js identifier
    imports,      \* the Vue imports requested so far
    indent,       \* CodeHelper's indentation depth
    buf,          \* the text appended to `buf` by the last call, as tokens
    calls,        \* number of calls made so far
    last,         \* the arguments of the last call and the registry it started from
    \* ---- markup parser ----
    ppc,          \* "idle" | "source" | "done"
    source,       \* the input text, a sequence of characters
    parsed,       \* what parse_sfc returned and what it printed
    \* ---- builtin codegen (fervid_codegen::CodegenContext) ----
    tpc,          \* "idle" | "element" | "done"
    element_node, \* the <transition> element handed to generate_transition
    used_imports, \* the import registry of the context
    passed,       \* the arguments generate_transition gave generate_componentlike
    out           \* the expression generate_transition returned

optVars == <<build, opc, original, template, once, afterRetain, removed>>

dirVars == <<dpc, directives, imports, indent, buf, calls, last>>

parseVars == <<ppc, source, parsed>>

transVars == <<tpc, element_node, used_imports, passed, out>>

vars == <<optVars, dirVars, parseVars, transVars>>

notOptVars == <<dirVars, parseVars, transVars>>

notDirVars == <<optVars, parseVars, transVars>>

notParseVars == <<optVars, dirVars, transVars>>

notTransVars == <<optVars, dirVars, parseVars>>

-----------------------------------------------------------------------------
(* Idle values: the state of a stage that a specification does not exercise *)

EmptyMap == [n \in {} |-> <<>>]

NoCall == [op |-> "none", tag_name |-> "", attributes |-> <<>>, is_component |-> FALSE,
           resolved |-> {}, before |-> EmptyMap]

OptIdle ==
    /\ build = "debug"
    /\ opc = "idle"
    /\ original = <<>>
    /\ template = <<>>
    /\ once = <<>>
    /\ afterRetain = <<>>
    /\ removed = {}

DirIdle ==
    /\ dpc = "idle"
    /\ directives = EmptyMap
    /\ imports = {}
    /\ indent = 0
    /\ buf = <<>>
    /\ calls = 0
    /\ last = NoCall

NotParsed == [ok |-> FALSE, rest |-> <<>>, val |-> <<>>, log |-> <<>>]

ParseIdle ==
    /\ ppc = "idle"
    /\ source = <<>>
    /\ parsed = NotParsed

NoExpr == [callee |-> "", args |-> <<>>]

NotPassed == [identifier |-> "", attrs |-> <<>>, slots |-> <<>>, patch_flag |-> 0,
              create_block |-> FALSE]

TransIdle ==
    /\ tpc = "idle"
    /\ element_node = <<>>
    /\ used_imports = {}
    /\ passed = NotPassed
    /\ out = NoExpr


-----------------------------------------------------------------------------
(* Bounds of the model *)

\* longest child list of the exhaustively enumerated (flat) inputs
MaxChildren == 3
\* longest child list of a nested element
MaxNested == 2
\* how many children beyond the mask width the long inputs may have
MaxTail == 2
\* how many codegen calls one compilation makes
MaxCalls == 2
\* how many fragments of markup an input text is made of
MaxFragments == 4
\* the length of the child lists that hold overlapping windows
MaxWindowed == 5

-----------------------------------------------------------------------------
(* Generic helpers *)

Range(s) == {s[i] : i \in 1..Len(s)}

SeqsUpTo(S, n) == UNION {[1..k -> S] : k \in 0..n}

Repeat(x, n) == [i \in 1..n |-> x] \o <<>>

\* a function over 1..n as an explicit tuple
Eager(f) == f \o <<>>

-----------------------------------------------------------------------------
(* Node model: fervid_core::Node.  An Option is a sequence of length <= 1. *)

TextNode(v) ==
    [kind |-> "Text", value |-> v, tag_name |-> "", directives |-> <<>>, children |-> <<>>]

CommentNode(v) ==
    [kind |-> "Comment", value |-> v, tag_name |-> "", directives |-> <<>>, children |-> <<>>]

DynamicExpression(v) ==
    [kind |-> "DynamicExpression", value |-> v, tag_name |-> "", directives |-> <<>>,
     children |-> <<>>]

ElementNode(tag, dirs, kids) ==
    [kind |-> "Element", value |-> <<>>, tag_name |-> tag, directives |-> dirs,
     children |-> kids]

\* StartingTag.directives = Some(VueDirectives { v_slot: Some(VSlot {..}) })
VSlot(dyn, name) == <<[v_slot |-> <<[is_dynamic_slot |-> dyn, slot_name |-> name]>>]>>
\* StartingTag.directives = Some(VueDirectives { v_slot: None })
NoVSlot == <<[v_slot |-> <<>>]>>

\* Unicode White_Space characters that occur in the modelled texts
Whitespace == {" ", "\n", "\t"}

RECURSIVE trim_start(_)
trim_start(v) ==
    IF v # <<>> /\ Head(v) \in Whitespace THEN trim_start(Tail(v)) ELSE v

RECURSIVE trim_end(_)
trim_end(v) ==
    IF v # <<>> /\ v[Len(v)] \in Whitespace THEN trim_end(SubSeq(v, 1, Len(v) - 1)) ELSE v

\* str::trim
trim(v) == trim_end(trim_start(v))

\* the guard `Node::Text(v) if v.trim().len() == 0`
IsWhitespaceText(n) == n.kind = "Text" /\ Len(trim(n.value)) = 0

\* the pattern `Node::Element(_) | Node::Comment(_)`
IsElementOrComment(n) == n.kind \in {"Element", "Comment"}

\* all_html_tags::is_html_tag, restricted to the tags the inputs use
HtmlTags == {"div", "span", "template"}

is_html_tag(tag) == tag \in HtmlTags

is_component(el) == ~is_html_tag(el.tag_name)

is_from_default_slot(node) ==
    IF node.kind # "Element" THEN TRUE
    ELSE IF node.tag_name # "template" THEN TRUE
    ELSE IF node.directives = <<>> THEN TRUE
    ELSE IF node.directives[1].v_slot = <<>> THEN TRUE
    ELSE LET v_slot == node.directives[1].v_slot[1]
         IN  IF v_slot.is_dynamic_slot THEN FALSE
             ELSE v_slot.slot_name = <<>> \/ v_slot.slot_name = <<"default">>

-----------------------------------------------------------------------------
(* The discard mask: a u128, modelled as the set of its set bits *)

\* width of `discard_mask: u128`
MaskBits == 128

\* `1 << k` on a u128: the bit it sets.  With overflow checks the shift panics
\* for k >= 128 (ShlOverflows); without them the amount is masked to the width.
Shl(k) == k % MaskBits

ShlOverflows(k) == build = "debug" /\ k >= MaskBits

\* lines 44-49
FirstBit(children) ==
    IF Len(children) > 0 /\ IsWhitespaceText(children[1]) THEN {0} ELSE {}

\* lines 50-55: the shift amount evaluated for the last child, if any
LastShift(children) ==
    IF Len(children) > 0 /\ IsWhitespaceText(children[Len(children)])
    THEN {Len(children) - 1} ELSE {}

\* a window pattern that does not look at the node after the text
window_matches_left_only(children, index) ==
    /\ IsElementOrComment(children[index + 1])
    /\ IsWhitespaceText(children[index + 2])

\* lines 58-67: whether the window starting at 0-based `index` matches
WindowMatches(children, index) ==
    /\ IsElementOrComment(children[index + 1])
    /\ IsWhitespaceText(children[index + 2])
    /\ IsElementOrComment(children[index + 3])

\* lines 58-67: the shift amounts evaluated by the matching windows
WindowShifts(children) ==
    LET hit == Eager([i \in 1..Len(children) |->
                        i + 2 <= Len(children) /\ WindowMatches(children, i - 1)])
    IN  {i : i \in {j \in 1..Len(children) : hit[j]}}

discard_mask(children) ==
    FirstBit(children)
        \cup {Shl(k) : k \in LastShift(children)}
        \cup {Shl(k) : k \in WindowShifts(children)}

\* lines 70-75: the 0-based indices `retain` drops
Discarded(children) ==
    LET mask == discard_mask(children)
        bits == Eager([b \in 1..MaskBits |-> (b - 1) \in mask])
    IN  {index \in 0..(Len(children) - 1) : bits[Shl(index) + 1]}

RetainChildren(children) ==
    LET drop == Discarded(children)
        indexed == [i \in 1..Len(children) |-> <<i - 1, children[i]>>]
        kept == SelectSeq(indexed, LAMBDA p : p[1] \notin drop)
    IN  [j \in 1..Len(kept) |-> kept[j][2]] \o <<>>

\* some shift of lines 52, 63 or 72 is evaluated with an amount >= 128 in a
\* build that checks overflow
PruneOverflows(children) ==
    \E k \in LastShift(children) \cup WindowShifts(children) \cup (0..(Len(children) - 1)) :
        ShlOverflows(k)


-----------------------------------------------------------------------------
(* Slot reordering: lines 77-85 *)

\* bool::cmp
cmp_bool(a, b) == IF a = b THEN "Equal" ELSE IF a = FALSE THEN "Less" ELSE "Greater"

slot_cmp_reversed(a, b) == cmp_bool(is_from_default_slot(b), is_from_default_slot(a))

\* the closure handed to sort_by
slot_cmp(a, b) == cmp_bool(is_from_default_slot(a), is_from_default_slot(b))

\* slice::sort_by is a stable sort: an element ends up after exactly the
\* elements that compare Less than it and the earlier elements that compare
\* Equal to it
sort_by_slot(children) ==
    LET n == Len(children)
        before(j, i) ==
            \/ slot_cmp(children[j], children[i]) = "Less"
            \/ slot_cmp(children[j], children[i]) = "Equal" /\ j < i
        pos == Eager([i \in 1..n |-> 1 + Cardinality({j \in 1..n : before(j, i)})])
    IN  Eager([p \in 1..n |-> children[CHOOSE i \in 1..n : pos[i] = p]])

SortChildren(el, children) ==
    IF is_component(el) /\ Len(children) > 0 THEN sort_by_slot(children) ELSE children

-----------------------------------------------------------------------------
(* The visitor: lines 36-119.  A visit either panics or yields the rewritten *)
(* node.                                                                     *)

RECURSIVE visit_mut_with(_)

\* lines 113-119: every child is visited; a panic in any visit ends the run
visit_mut_children_with(children) ==
    LET visited == Eager([i \in 1..Len(children) |-> visit_mut_with(children[i])])
    IN  IF \E i \in 1..Len(children) : visited[i].panicked
        THEN [panicked |-> TRUE, nodes |-> <<>>]
        ELSE [panicked |-> FALSE,
              nodes |-> Eager([i \in 1..Len(children) |-> visited[i].node])]

visit_element_node(el) ==
    IF PruneOverflows(el.children) THEN [panicked |-> TRUE, node |-> el]
    ELSE LET sorted  == SortChildren(el, RetainChildren(el.children))
             visited == visit_mut_children_with(sorted)
         IN  IF visited.panicked THEN [panicked |-> TRUE, node |-> el]
             ELSE [panicked |-> FALSE, node |-> [el EXCEPT !.children = visited.nodes]]

\* lines 98-105: only elements are visited
visit_mut_with(node) ==
    IF node.kind = "Element" THEN visit_element_node(node)
    ELSE [panicked |-> FALSE, node |-> node]

\* lines 9-11
RetainElementRoots(roots) == SelectSeq(roots, LAMBDA n : n.kind = "Element")

\* optimize_template, lines 5-20
optimize_template(roots) ==
    LET r == visit_mut_children_with(RetainElementRoots(roots))
    IN  [panicked |-> r.panicked, roots |-> r.nodes]

-----------------------------------------------------------------------------
(* Optimizer inputs *)

W   == TextNode(<<" ">>)
W2  == TextNode(<<"\n", " ">>)
Txt == TextNode(<<" ", "a", " ">>)
Cmt == CommentNode(<<"c">>)
Dyn == DynamicExpression(<<"x">>)
Div == ElementNode("div", <<>>, <<>>)
Named    == ElementNode("template", VSlot(FALSE, <<"foo">>), <<>>)
NamedDyn == ElementNode("template", VSlot(TRUE, <<"default">>), <<>>)
DefaultT == ElementNode("template", VSlot(FALSE, <<"default">>), <<>>)

\* every shape of <template> that is_from_default_slot tells apart
TemplateVariants ==
    {ElementNode("template", d, <<>>) :
        d \in {<<>>, NoVSlot} \cup
              {VSlot(dyn, name) : dyn \in BOOLEAN, name \in {<<>>, <<"default">>, <<"foo">>}}}

FlatKinds == {W, Txt, Cmt, Dyn, Div, Named, DefaultT}

RootTags == {"div", "MyComp"}

FlatInputs ==
    {<<ElementNode(t, <<>>, kids)>> : t \in RootTags, kids \in SeqsUpTo(FlatKinds, MaxChildren)}

SlotInputs ==
    {<<ElementNode("MyComp", <<>>, <<a, b>>)>> :
        a \in TemplateVariants \cup {Txt, W2, NamedDyn}, b \in TemplateVariants}

NestedKinds == {W, Dyn, Named}

NestedElements ==
    {ElementNode(t, <<>>, kids) :
        t \in {"span", "MyComp"}, kids \in SeqsUpTo(NestedKinds, MaxNested)}
    \cup {ElementNode("template", VSlot(FALSE, <<"foo">>), kids) :
            kids \in SeqsUpTo(NestedKinds, MaxNested)}

NestedInputs ==
    {rootpre \o <<ElementNode(t, <<>>, pre \o <<x>> \o post)>> :
        rootpre \in {<<>>, <<W>>}, t \in RootTags,
        pre \in {<<>>, <<Dyn>>}, x \in NestedElements, post \in {<<>>, <<W>>}}

\* child lists around the mask width: a first child, fillers up to index 126,
\* the child at index 127, and up to MaxTail children at indices >= 128
LongChildren ==
    {<<first>> \o Repeat(fill, MaskBits - 2) \o <<at127>> \o tail :
        first \in {W, Div}, fill \in {Div, Dyn}, at127 \in {W, Div},
        tail \in SeqsUpTo({W, Div}, MaxTail)}

LongInputs ==
    {<<ElementNode("div", <<>>, kids)>> : kids \in LongChildren}
    \cup {<<ElementNode("MyComp", <<>>, kids)>> :
            kids \in {k \in LongChildren : k[1] = W /\ k[2] = Div}}

\* child lists long enough for windows that overlap
WindowedInputs ==
    {<<ElementNode(t, <<>>, kids \o <<>>)>> :
        t \in RootTags, kids \in [1..MaxWindowed -> {W, Div, Cmt, Dyn}]}

OptInputs == FlatInputs \cup SlotInputs \cup NestedInputs \cup LongInputs \cup WindowedInputs

Builds == {"debug", "release"}

\* the first root element of a root list
FirstRoot(roots) == RetainElementRoots(roots)[1]

-----------------------------------------------------------------------------
(* Optimizer state machine *)

InitOpt ==
    /\ build \in Builds
    /\ opc = "parsed"
    /\ original \in OptInputs
    /\ template = original
    /\ once = <<>>
    /\ afterRetain = <<>>
    /\ removed = {}
    /\ DirIdle
    /\ ParseIdle
    /\ TransIdle

\* optimize_template on the parsed template
Optimize ==
    /\ opc = "parsed"
    /\ LET r == optimize_template(template)
           focus == FirstRoot(template).children
       IN  IF r.panicked
           THEN /\ opc' = "panicked"
                /\ UNCHANGED <<template, once, afterRetain, removed>>
           ELSE /\ opc' = "optimized"
                /\ template' = r.roots
                /\ once' = r.roots
                /\ afterRetain' = RetainChildren(focus)
                /\ removed' = Discarded(focus)
    /\ UNCHANGED <<build, original>>
    /\ UNCHANGED notOptVars

\* optimize_template on the already optimized template
OptimizeAgain ==
    /\ opc = "optimized"
    /\ LET r == optimize_template(template)
       IN  IF r.panicked
           THEN /\ opc' = "panicked"
                /\ UNCHANGED template
           ELSE /\ opc' = "reoptimized"
                /\ template' = r.roots
    /\ UNCHANGED <<build, original, once, afterRetain, removed>>
    /\ UNCHANGED notOptVars

NextOpt == Optimize \/ OptimizeAgain

SpecOpt == InitOpt /\ [][NextOpt]_vars

-----------------------------------------------------------------------------
(* Optimizer claims *)

Shallow(n) == [n EXCEPT !.children = <<>>]

ShallowSeq(s) == [i \in 1..Len(s) |-> Shallow(s[i])] \o <<>>

\* a whitespace-only Text that is first, last, or directly between two
\* Element/Comment siblings
InsignificantAt(children, i) ==
    /\ IsWhitespaceText(children[i])
    /\ \/ i = 1
       \/ i = Len(children)
       \/ IsElementOrComment(children[i - 1]) /\ IsElementOrComment(children[i + 1])

RECURSIVE WhitespaceFree(_)
WhitespaceFree(node) ==
    node.kind = "Element" =>
        /\ \A i \in 1..Len(node.children) : ~InsignificantAt(node.children, i)
        /\ \A i \in 1..Len(node.children) : WhitespaceFree(node.children[i])

\* C1: running the optimizer on the already optimized tree yields exactly
\* the tree of the first run.
C1_Idempotent == opc = "reoptimized" => template = once

\* C2: after optimize_template no element anywhere in the tree has a
\* whitespace-only Text as first child, as last child, or directly between
\* two Element/Comment siblings.
C2_NoInsignificantWhitespace ==
    opc = "optimized" => \A r \in 1..Len(template) : WhitespaceFree(template[r])

NamedOf(s) == SelectSeq(s, LAMBDA n : ~is_from_default_slot(n))

DefaultOf(s) == SelectSeq(s, LAMBDA n : is_from_default_slot(n))

FocusIsComponent == is_component(FirstRoot(original))

\* C3 as stated: the children of a component are its default-slot-eligible
\* children in their original order, followed by its named and dynamic slot
\* templates in their original order.
C3_DefaultSlotFirst ==
    (opc = "optimized" /\ FocusIsComponent /\ Len(afterRetain) > 0) =>
        ShallowSeq(FirstRoot(template).children)
            = ShallowSeq(DefaultOf(afterRetain) \o NamedOf(afterRetain))

\* in every component of the tree no default-slot-eligible child precedes a
\* named or dynamic slot template
RECURSIVE NamedPrecedeDefault(_)
NamedPrecedeDefault(node) ==
    node.kind = "Element" =>
        /\ is_component(node) =>
            \A i, j \in 1..Len(node.children) :
                (is_from_default_slot(node.children[i]) /\ ~is_from_default_slot(node.children[j]))
                    => j < i
        /\ \A i \in 1..Len(node.children) : NamedPrecedeDefault(node.children[i])

\* C3 as amended: in every component of the optimized tree the named and
\* dynamic slot templates precede the default-slot-eligible children, and the
\* children of the first root component are the named and dynamic slot
\* templates left after pruning, in their original order, followed by the
\* default-slot-eligible children left after pruning, in their original order.
C3_NamedSlotsFirst ==
    opc = "optimized" =>
        /\ \A r \in 1..Len(template) : NamedPrecedeDefault(template[r])
        /\ (FocusIsComponent /\ Len(afterRetain) > 0) =>
              ShallowSeq(FirstRoot(template).children)
                  = ShallowSeq(NamedOf(afterRetain) \o DefaultOf(afterRetain))

\* a component whose pruned children [plain text, named template, default
\* template] were reordered to [named template, plain text, default template]
C3_Witness ==
    /\ opc = "optimized"
    /\ FocusIsComponent
    /\ afterRetain = <<Txt, Named, DefaultT>>
    /\ FirstRoot(template).children = <<Named, Txt, DefaultT>>

\* the 0-based index i of `kids` may be dropped by the pruning rule, read
\* without wrap-around: a whitespace-only Text between two Element/Comment
\* siblings, or one that is first or last at an index below the mask width
JustifiedRemoval(kids, i) ==
    /\ IsWhitespaceText(kids[i + 1])
    /\ \/ i < MaskBits /\ (i = 0 \/ i = Len(kids) - 1)
       \/ /\ 0 < i /\ i < Len(kids) - 1
          /\ IsElementOrComment(kids[i]) /\ IsElementOrComment(kids[i + 2])

\* C10: on an element with more children than the mask has bits the
\* optimizer completes, and every child it drops is dropped by the rule read
\* at the child's own index (none at an index >= 128 by the first/last
\* trim, none below 128 on account of a child at an index >= 128).
C10_GracefulBeyondMask ==
    LET kids == FirstRoot(original).children
    IN  Len(kids) > MaskBits =>
            /\ opc # "panicked"
            /\ opc = "optimized" => \A i \in removed : JustifiedRemoval(kids, i)

\* the pruning rule read at the 0-based position i of the children as they
\* were before any removal
PrunedByRule(kids, i) ==
    /\ IsWhitespaceText(kids[i + 1])
    /\ \/ i = 0
       \/ i = Len(kids) - 1
       \/ IsElementOrComment(kids[i]) /\ IsElementOrComment(kids[i + 2])

\* the children the rule keeps, in their original order
Survivors(kids) ==
    LET indexed == [i \in 1..Len(kids) |-> <<i - 1, kids[i]>>]
        kept == SelectSeq(indexed, LAMBDA p : ~PrunedByRule(kids, p[1]))
    IN  [j \in 1..Len(kept) |-> kept[j][2]] \o <<>>

\* C12: on an element with at most 128 children the retain pass drops
\* exactly the whitespace-only Text children that are first, last or
\* directly between two Element/Comment siblings in the original child list;
\* every other child survives, and a host element ends with the survivors in
\* their original order.
C12_PruneExactlyByRule ==
    LET kids == FirstRoot(original).children
    IN  (opc = "optimized" /\ Len(kids) <= MaskBits) =>
            /\ removed = {i \in 0..(Len(kids) - 1) : PrunedByRule(kids, i)}
            /\ afterRetain = Survivors(kids)
            /\ ~FocusIsComponent =>
                  ShallowSeq(FirstRoot(template).children) = ShallowSeq(Survivors(kids))

\* two overlapping windows, both matching, each decided on the original list
C12_Witness ==
    /\ opc = "optimized"
    /\ FirstRoot(original).children = <<Div, W, Div, W, Div>>
    /\ removed = {1, 3}
    /\ FirstRoot(template).children = <<Div, Div, Div>>

-----------------------------------------------------------------------------
(* Directive codegen: crates/fervid/src/compiler/codegen_directives.rs.     *)
(* Directive names and identifiers are sequences of characters; the output  *)
(* text is a sequence of tokens, one per push to `buf`.                     *)

Tok(kind, text) == [kind |-> kind, text |-> text, indent |-> 0, entries |-> <<>>]

\* HtmlAttribute::Regular { name, value }
Regular(name, value) ==
    [kind |-> "Regular", name |-> name, value |-> <<value>>, argument |-> <<>>,
     modifiers |-> <<>>]

\* HtmlAttribute::VDirective(VDirective { name, argument, modifiers, value, .. })
VDirective(name, argument, modifiers, value) ==
    [kind |-> "VDirective", name |-> name, value |-> value, argument |-> argument,
     modifiers |-> modifiers]

ModelName == <<"m", "o", "d", "e", "l">>
ShowName  == <<"s", "h", "o", "w">>
TypeName  == <<"t", "y", "p", "e">>

\* the context a call works on: CodegenContext and the caller's `buf`
Ctx == [buf |-> buf, directives |-> directives, imports |-> imports, indent |-> indent,
        panicked |-> FALSE]

push_str(ctx, tok) == [ctx EXCEPT !.buf = Append(@, tok)]

\* CodeHelper (helper.rs)
open_sq_bracket(ctx) == push_str(ctx, Tok("open", <<"[">>))
close_sq_bracket(ctx) == push_str(ctx, Tok("close", <<"]">>))
comma(ctx) == push_str(ctx, Tok("comma", <<", ">>))
newline(ctx) == push_str(ctx, [Tok("newline", <<"\n">>) EXCEPT !.indent = ctx.indent])
comma_newline(ctx) == newline(push_str(ctx, Tok("comma", <<",">>)))
indent_in(ctx) == [ctx EXCEPT !.indent = @ + 1]
unindent(ctx) == [ctx EXCEPT !.indent = @ - 1]
quoted(ctx, text) == push_str(ctx, Tok("quoted", text))
obj_from_entries_iter(ctx, entries) ==
    push_str(ctx, [Tok("object", <<"{", "}">>) EXCEPT !.entries = entries])

\* CodegenContext::get_and_add_import_str (imports.rs): the import is
\* registered and its identifier returned
ImportStr(import) == <<"_", import>>

add_import(ctx, import) == [ctx EXCEPT !.imports = @ \cup {import}]

\* directives::supports_with_directive: the directives that are compiled
\* elsewhere are not emitted through withDirectives
NotWithDirectives == {<<"o", "n">>, <<"b", "i", "n", "d">>, <<"i", "f">>, <<"s", "l", "o", "t">>}

supports_with_directive(name, is_comp) == name \notin NotWithDirectives

\* transform::swc::transform_scoped: Some(transformed) for the expressions
\* the resolver handles (`resolved`), None for the others
transform_scoped(expr, resolved) ==
    IF expr \in resolved THEN <<<<"_ctx.">> \o expr>> ELSE <<>>

\* str::replace('-', "_")
replace_dash(name) == [i \in 1..Len(name) |-> IF name[i] = "-" THEN "_" ELSE name[i]] \o <<>>

DirectivePrefix == <<"_", "d", "i", "r", "e", "c", "t", "i", "v", "e", "_">>

\* lines 147-149
directive_ident(name) == DirectivePrefix \o replace_dash(name)

add_to_directives_writing_name(ctx, directive_name) ==
    IF directive_name \in DOMAIN ctx.directives
    THEN push_str(ctx, Tok("str", directive_name))
    ELSE [push_str(ctx, Tok("str", directive_ident(directive_name)))
            EXCEPT !.directives = @ @@ (directive_name :> directive_ident(directive_name))]

\* lines 139-156
add_to_directives_and_write(ctx, directive_name) ==
    IF directive_name \in DOMAIN ctx.directives
    THEN push_str(ctx, Tok("str", ctx.directives[directive_name]))
    ELSE [push_str(ctx, Tok("str", directive_ident(directive_name)))
            EXCEPT !.directives = @ @@ (directive_name :> directive_ident(directive_name))]

\* lines 167-175: the value of the first regular attribute named `type`
input_type(attributes) ==
    LET types == SelectSeq(attributes, LAMBDA a : a.kind = "Regular" /\ a.name = TypeName)
    IN  IF types = <<>> THEN <<"text">> ELSE types[1].value[1]

vmodel_import_swapped(tag_name, attributes) ==
    CASE tag_name = "input" ->
            (CASE input_type(attributes) = <<"checkbox">> -> <<"vModelRadio">>
               [] input_type(attributes) = <<"radio">> -> <<"vModelCheckbox">>
               [] OTHER -> <<"vModelText">>)
      [] tag_name = "textarea" -> <<"vModelText">>
      [] tag_name = "select" -> <<"vModelSelect">>
      [] OTHER -> <<>>

\* lines 158-190: the import get_vmodel_directive_name asks for; none when it
\* reaches unreachable!
vmodel_import(tag_name, attributes) ==
    CASE tag_name = "input" ->
            (CASE input_type(attributes) = <<"checkbox">> -> <<"vModelCheckbox">>
               [] input_type(attributes) = <<"radio">> -> <<"vModelRadio">>
               [] OTHER -> <<"vModelText">>)
      [] tag_name = "textarea" -> <<"vModelText">>
      [] tag_name = "select" -> <<"vModelSelect">>
      [] OTHER -> <<>>

\* lines 48-58
write_ident(ctx, st, d, is_comp) ==
    IF d.name = ModelName /\ ~is_comp
    THEN LET import == vmodel_import(st.tag_name, st.attributes)
         IN  IF import = <<>> THEN [ctx EXCEPT !.panicked = TRUE]
             ELSE push_str(add_import(ctx, import[1]), Tok("str", ImportStr(import[1])))
    ELSE IF d.name = ShowName
    THEN push_str(add_import(ctx, "vShow"), Tok("str", ImportStr("vShow")))
    ELSE add_to_directives_and_write(ctx, d.name)

has_argument(d) == Len(d.argument) > 0
has_modifiers(d) == Len(d.modifiers) > 0
has_arg_or_modifiers(d) == has_argument(d) \/ has_modifiers(d)

VoidZero == Tok("str", <<"void 0">>)

write_value_no_placeholder(ctx, d, resolved) ==
    IF d.value # <<>>
    THEN LET sep == IF has_arg_or_modifiers(d) THEN comma_newline(ctx) ELSE comma(ctx)
             transformed == transform_scoped(d.value[1], resolved)
         IN  push_str(sep, IF transformed # <<>> THEN Tok("str", transformed[1]) ELSE VoidZero)
    ELSE ctx

write_value_passthrough(ctx, d, resolved) ==
    IF d.value # <<>>
    THEN LET sep == IF has_arg_or_modifiers(d) THEN comma_newline(ctx) ELSE comma(ctx)
             transformed == transform_scoped(d.value[1], resolved)
         IN  push_str(sep, IF transformed # <<>> THEN Tok("str", transformed[1])
                           ELSE Tok("str", d.value[1]))
    ELSE IF has_arg_or_modifiers(d) THEN push_str(comma_newline(ctx), VoidZero)
    ELSE ctx

\* lines 60-77
write_value(ctx, d, resolved) ==
    IF d.value # <<>>
    THEN LET sep == IF has_arg_or_modifiers(d) THEN comma_newline(ctx) ELSE comma(ctx)
             transformed == transform_scoped(d.value[1], resolved)
         IN  push_str(sep, IF transformed # <<>> THEN Tok("str", transformed[1]) ELSE VoidZero)
    ELSE IF has_arg_or_modifiers(d) THEN push_str(comma_newline(ctx), VoidZero)
    ELSE ctx

\* lines 79-88
write_argument(ctx, d) ==
    IF has_arg_or_modifiers(d)
    THEN IF has_argument(d) THEN quoted(comma_newline(ctx), d.argument)
         ELSE push_str(comma_newline(ctx), VoidZero)
    ELSE ctx

\* lines 90-100
write_modifiers(ctx, d) ==
    IF has_modifiers(d)
    THEN obj_from_entries_iter(comma_newline(ctx),
            [i \in 1..Len(d.modifiers) |-> <<d.modifiers[i], <<"true">>>>] \o <<>>)
    ELSE ctx

\* lines 17-109: the loop body for one attribute
generate_directive(ctx, st, attr, is_comp, resolved) ==
    IF attr.kind # "VDirective" THEN ctx
    ELSE IF ~supports_with_directive(attr.name, is_comp) THEN ctx
    ELSE LET c1 == open_sq_bracket(newline(indent_in(ctx)))
             c2 == IF has_arg_or_modifiers(attr) THEN newline(indent_in(c1)) ELSE c1
             c3 == write_ident(c2, st, attr, is_comp)
             c4 == write_modifiers(write_argument(write_value(c3, attr, resolved), attr), attr)
             c5 == IF has_arg_or_modifiers(attr) THEN newline(unindent(c4)) ELSE c4
         IN  IF c3.panicked THEN c3 ELSE unindent(close_sq_bracket(c5))

RECURSIVE generate_directives_from(_, _, _, _, _)
generate_directives_from(ctx, st, i, is_comp, resolved) ==
    IF ctx.panicked \/ i > Len(st.attributes) THEN ctx
    ELSE generate_directives_from(
            generate_directive(ctx, st, st.attributes[i], is_comp, resolved),
            st, i + 1, is_comp, resolved)

\* lines 7-114
generate_directives(ctx, st, is_comp, resolved) ==
    LET c == generate_directives_from(open_sq_bracket(ctx), st, 1, is_comp, resolved)
    IN  IF c.panicked THEN c ELSE close_sq_bracket(newline(c))

\* u8 values of the characters of the modelled identifiers
Byte(c) ==
    CASE c = "-" -> 45 [] c = "_" -> 95 [] c = "a" -> 97 [] c = "b" -> 98 [] c = "c" -> 99
      [] c = "d" -> 100 [] c = "e" -> 101 [] c = "i" -> 105 [] c = "l" -> 108
      [] c = "m" -> 109 [] c = "o" -> 111 [] c = "r" -> 114 [] c = "t" -> 116
      [] c = "v" -> 118

\* str::cmp: byte-wise lexicographic order
RECURSIVE str_le(_, _)
str_le(a, b) ==
    IF a = <<>> THEN TRUE
    ELSE IF b = <<>> THEN FALSE
    ELSE IF Byte(Head(a)) # Byte(Head(b)) THEN Byte(Head(a)) < Byte(Head(b))
    ELSE str_le(Tail(a), Tail(b))

\* lines 125-126: the entries sorted by identifier; entries with equal
\* identifiers come in the map's iteration order, which is arbitrary
SortedDirectives(map) ==
    {order \in [1..Cardinality(DOMAIN map) -> DOMAIN map] :
        /\ \A i, j \in DOMAIN order : i # j => order[i] # order[j]
        /\ \A i, j \in DOMAIN order : i < j => str_le(map[order[i]], map[order[j]])}

\* lines 129-136: one `const <identifier> = <resolve>("<name>")` per entry
RECURSIVE write_resolves(_, _, _)
write_resolves(ctx, order, index) ==
    IF index > Len(order) THEN ctx
    ELSE LET sep == IF index > 1 THEN newline(ctx) ELSE ctx
             decl == [Tok("const", ctx.directives[order[index]])
                        EXCEPT !.entries = <<<<order[index], ImportStr("resolveDirective")>>>>]
         IN  write_resolves(push_str(sep, decl), order, index + 1)

\* lines 116-137
generate_directive_resolves(ctx, order) ==
    IF Cardinality(DOMAIN ctx.directives) = 0 THEN ctx
    ELSE write_resolves(add_import(ctx, "resolveDirective"), order, 1)

-----------------------------------------------------------------------------
(* Directive codegen inputs *)

X == <<"x">>
M == <<"m">>
N == <<"n">>
Custom1 == <<"a", "-", "b">>
Custom2 == <<"a", "_", "b">>
Custom3 == <<"b">>
OnName == <<"o", "n">>

ModelDirectives ==
    {VDirective(ModelName, <<>>, <<>>, <<X>>), VDirective(ModelName, <<"c">>, <<M>>, <<X>>)}

TypeAttr(v) == Regular(TypeName, <<v>>)

InputAttributes(d) ==
    {<<d>>, <<TypeAttr("checkbox"), d>>, <<TypeAttr("radio"), d>>, <<TypeAttr("number"), d>>,
     <<d, TypeAttr("checkbox")>>, <<TypeAttr("radio"), TypeAttr("checkbox"), d>>}

Call(tag, attrs, is_comp, resolved) ==
    [tag_name |-> tag, attributes |-> attrs, is_component |-> is_comp, resolved |-> resolved]

\* v-model on every kind of tag, as element and as component
ModelCalls ==
    {Call("input", attrs, c, {X}) :
        attrs \in UNION {InputAttributes(d) : d \in ModelDirectives}, c \in BOOLEAN}
    \cup {Call(tag, attrs, c, {X}) :
            tag \in {"textarea", "select", "div", "MyComp"},
            attrs \in UNION {{<<d>>, <<TypeAttr("checkbox"), d>>} : d \in ModelDirectives},
            c \in BOOLEAN}

\* one directive of every shape; an expression the resolver handles or not
ShapeCalls ==
    {Call("div", <<VDirective(name, arg, mods, value)>>, FALSE, resolved) :
        name \in {ShowName, Custom1}, arg \in {<<>>, <<"c">>}, mods \in {<<>>, <<M>>, <<M, N>>},
        value \in {<<>>, <<X>>}, resolved \in {{}, {X}}}
    \cup {Call("div", <<VDirective(OnName, <<"c">>, <<>>, <<X>>)>>, FALSE, {X})}

\* two directives on one element
PairCalls ==
    {Call("div", <<VDirective(n1, <<>>, <<>>, <<X>>), VDirective(n2, <<>>, <<>>, <<>>)>>,
          FALSE, {X}) :
        n1, n2 \in {ShowName, Custom1, Custom2, Custom3, ModelName}}
    \cup {Call("MyComp", <<VDirective(ModelName, <<>>, <<>>, <<X>>),
                           VDirective(Custom1, <<>>, <<>>, <<X>>)>>, TRUE, {X})}

DirCalls == ModelCalls \cup ShapeCalls \cup PairCalls

-----------------------------------------------------------------------------
(* Directive codegen state machine *)

InitDir ==
    /\ OptIdle
    /\ ParseIdle
    /\ TransIdle
    /\ dpc = "ready"
    /\ directives = EmptyMap
    /\ imports = {}
    /\ indent = 0
    /\ buf = <<>>
    /\ calls = 0
    /\ last = NoCall

Finish(c, lastCall) ==
    /\ dpc' = IF c.panicked THEN "panicked" ELSE "ready"
    /\ directives' = c.directives
    /\ imports' = c.imports
    /\ indent' = c.indent
    /\ buf' = c.buf
    /\ calls' = calls + 1
    /\ last' = lastCall

\* generate_directives for one element, with a buffer of the caller's
GenerateDirectives ==
    /\ dpc = "ready"
    /\ calls < MaxCalls
    /\ \E call \in DirCalls :
        Finish(generate_directives([Ctx EXCEPT !.buf = <<>>],
                                   [tag_name |-> call.tag_name, attributes |-> call.attributes],
                                   call.is_component, call.resolved),
               [op |-> "directives", tag_name |-> call.tag_name,
                attributes |-> call.attributes, is_component |-> call.is_component,
                resolved |-> call.resolved, before |-> directives])
    /\ UNCHANGED notDirVars

\* generate_directive_resolves, with a buffer of the caller's
GenerateDirectiveResolves ==
    /\ dpc = "ready"
    /\ calls < MaxCalls
    /\ \E order \in SortedDirectives(directives) :
        Finish(generate_directive_resolves([Ctx EXCEPT !.buf = <<>>], order),
               [NoCall EXCEPT !.op = "resolves", !.before = directives])
    /\ UNCHANGED notDirVars

NextDir == GenerateDirectives \/ GenerateDirectiveResolves

SpecDir == InitDir /\ [][NextDir]_vars

-----------------------------------------------------------------------------
(* Directive codegen claims *)

Indices(b) == [i \in 1..Len(b) |-> i] \o <<>>

\* the tokens that open a descriptor: every "[" but the one opening the array
DescriptorStarts(b) == SelectSeq(Indices(b), LAMBDA i : i > 1 /\ b[i].kind = "open")

\* the "]" closing the descriptor opened at o; past the end when the
\* descriptor was never closed
DescriptorEnd(b, o) ==
    LET closes == {j \in (o + 1)..Len(b) : b[j].kind = "close"}
    IN  IF closes = {} THEN Len(b) + 1 ELSE CHOOSE j \in closes : \A k \in closes : j <= k

RECURSIVE SplitAtCommas(_)
SplitAtCommas(toks) ==
    LET commas == {i \in 1..Len(toks) : toks[i].kind = "comma"}
    IN  IF commas = {} THEN <<toks>>
        ELSE LET c == CHOOSE i \in commas : \A k \in commas : i <= k
             IN  <<SubSeq(toks, 1, c - 1)>> \o SplitAtCommas(SubSeq(toks, c + 1, Len(toks)))

\* the positions of the descriptor opened at o: its tokens between commas,
\* line breaks aside
Positions(b, o) ==
    SplitAtCommas(SelectSeq(SubSeq(b, o + 1, DescriptorEnd(b, o) - 1),
                            LAMBDA t : t.kind # "newline"))

\* the descriptors of the last generate_directives call, in order
Descriptors ==
    LET starts == DescriptorStarts(buf)
    IN  [k \in 1..Len(starts) |-> Positions(buf, starts[k])] \o <<>>

\* the descriptors that were closed
Complete ==
    {k \in 1..Len(Descriptors) : DescriptorEnd(buf, DescriptorStarts(buf)[k]) <= Len(buf)}

\* the directive attributes of the last call that are emitted, in order
Emitted ==
    SelectSeq(last.attributes,
              LAMBDA a : a.kind = "VDirective" /\ a.name \notin NotWithDirectives)

\* the directive goes through the custom-directive registry
IsCustom(d) == d.name # ShowName /\ ~(d.name = ModelName /\ ~last.is_component)

\* C4: the registry maps different directive names to different
\* identifiers, and generate_directive_resolves declares no identifier twice.
C4_Injective ==
    /\ \A n1, n2 \in DOMAIN directives : n1 # n2 => directives[n1] # directives[n2]
    /\ last.op = "resolves" =>
          \A i, j \in 1..Len(buf) :
              (i # j /\ buf[i].kind = "const" /\ buf[j].kind = "const")
                  => buf[i].text # buf[j].text

\* C5: a call removes no entry of the registry and changes no identifier in
\* it; generate_directive_resolves leaves it as it is; generate_directives adds
\* exactly the custom names it writes that had no entry, and writes for a name
\* that had an entry the identifier stored for it.
C5_RegistryStable ==
    /\ \A n \in DOMAIN last.before : n \in DOMAIN directives /\ directives[n] = last.before[n]
    /\ last.op = "resolves" => directives = last.before
    /\ last.op = "directives" =>
          /\ DOMAIN directives = DOMAIN last.before \cup
                {Emitted[k].name : k \in {j \in 1..Len(Descriptors) :
                    IsCustom(Emitted[j]) /\ Descriptors[j][1] # <<>>}}
          /\ \A k \in 1..Len(Descriptors) :
                (IsCustom(Emitted[k]) /\ Emitted[k].name \in DOMAIN last.before)
                    => Descriptors[k][1] = <<Tok("str", last.before[Emitted[k].name])>>

\* a custom directive that already had an entry is used again
C5_Witness ==
    /\ last.op = "directives"
    /\ dpc = "ready"
    /\ Custom1 \in DOMAIN last.before
    /\ \E k \in 1..Len(Emitted) : Emitted[k].name = Custom1
    /\ Cardinality(DOMAIN directives) = 2

\* the helper the claim names for `model` on an element: none for a tag
\* other than input, textarea and select
TypeOf(attributes) ==
    LET types == {i \in 1..Len(attributes) :
                    attributes[i].kind = "Regular" /\ attributes[i].name = TypeName}
    IN  IF types = {} THEN <<>>
        ELSE attributes[CHOOSE i \in types : \A j \in types : i <= j].value[1]

ModelHelper ==
    CASE last.tag_name = "input" /\ TypeOf(last.attributes) = <<"checkbox">> -> <<"vModelCheckbox">>
      [] last.tag_name = "input" /\ TypeOf(last.attributes) = <<"radio">> -> <<"vModelRadio">>
      [] last.tag_name = "input" /\ TypeOf(last.attributes) \notin {<<"checkbox">>, <<"radio">>}
            -> <<"vModelText">>
      [] last.tag_name = "textarea" -> <<"vModelText">>
      [] last.tag_name = "select" -> <<"vModelSelect">>
      [] OTHER -> <<>>

\* C6: for `model` on a non-component element the identifier is the helper
\* chosen by tag name and `type`; for any other tag the call ends in a fatal
\* error with no identifier written for that directive, and the registry gets
\* no entry for it.
C6_ModelBinding ==
    (last.op = "directives" /\ ~last.is_component) =>
        /\ \A k \in 1..Len(Descriptors) :
              Emitted[k].name = ModelName =>
                  IF ModelHelper # <<>>
                  THEN /\ Descriptors[k][1] = <<Tok("str", <<"_", ModelHelper[1]>>)>>
                       /\ ModelHelper[1] \in imports
                  ELSE /\ dpc = "panicked"
                       /\ k = Len(Descriptors)
                       /\ Descriptors[k] = <<<<>>>>
        /\ (\E k \in 1..Len(Emitted) : Emitted[k].name = ModelName) /\ ModelHelper = <<>>
              => dpc = "panicked"
        /\ ModelName \in DOMAIN directives => ModelName \in DOMAIN last.before

\* <input type="checkbox" v-model> got the checkbox helper
C6_WitnessCheckbox ==
    /\ last.op = "directives" /\ ~last.is_component /\ dpc = "ready"
    /\ last.tag_name = "input"
    /\ last.attributes[1] = TypeAttr("checkbox")
    /\ Len(Descriptors) = 1
    /\ Emitted[1].name = ModelName
    /\ Descriptors[1][1] = <<Tok("str", <<"_", "vModelCheckbox">>)>>

\* the number of positions C7 gives a directive
PositionsOf(d) ==
    IF Len(d.modifiers) > 0 THEN 4
    ELSE IF Len(d.argument) > 0 THEN 3
    ELSE IF d.value # <<>> THEN 2
    ELSE 1

\* C7: a descriptor has 1 position without value, argument and modifiers, 2
\* with only a value, 3 with an argument and no modifiers, 4 with modifiers;
\* a missing value or argument before a later position is `void 0`, the
\* argument is the quoted third position and the modifiers are the fourth, an
\* object mapping every modifier to true.
C7_PositionalElision ==
    last.op = "directives" =>
        \A k \in Complete :
            LET d == Emitted[k]
                p == Descriptors[k]
            IN  /\ Len(p) = PositionsOf(d)
                /\ \A i \in 1..Len(p) : Len(p[i]) = 1
                /\ p[1][1].kind = "str"
                /\ (Len(p) >= 2 /\ d.value = <<>>) => p[2] = <<VoidZero>>
                /\ (Len(p) >= 2 /\ d.value # <<>>) => p[2][1].kind = "str"
                /\ Len(p) >= 3 =>
                      p[3] = IF Len(d.argument) > 0 THEN <<Tok("quoted", d.argument)>>
                             ELSE <<VoidZero>>
                /\ Len(p) = 4 =>
                      /\ p[4][1].kind = "object"
                      /\ Len(p[4][1].entries) = Len(d.modifiers)
                      /\ \A i \in 1..Len(d.modifiers) :
                            p[4][1].entries[i] = <<d.modifiers[i], <<"true">>>>

\* a directive with modifiers only: both placeholders and the object
C7_Witness ==
    /\ last.op = "directives" /\ dpc = "ready"
    /\ Len(Descriptors) = 1
    /\ Emitted[1].value = <<>> /\ Emitted[1].argument = <<>> /\ Emitted[1].modifiers = <<M, N>>
    /\ Len(Descriptors[1]) = 4
    /\ Descriptors[1][2] = <<VoidZero>>
    /\ Descriptors[1][3] = <<VoidZero>>

\* C8 as stated: a value the resolver returns nothing for is written as the
\* original expression text, and `void 0` is in the value position only for a
\* directive without value.
C8_OriginalTextFallback ==
    last.op = "directives" =>
        \A k \in Complete :
            LET d == Emitted[k]
                p == Descriptors[k]
            IN  /\ (d.value # <<>> /\ d.value[1] \notin last.resolved)
                      => p[2] = <<Tok("str", d.value[1])>>
                /\ (Len(p) >= 2 /\ p[2] = <<VoidZero>>) => d.value = <<>>

\* C8 as amended: a value the resolver transforms is written transformed; a
\* value the resolver returns nothing for is written as `void 0`; so `void 0`
\* is in the value position exactly when the directive has no value (and an
\* argument or modifiers) or the resolver returned nothing for its value.
C8_VoidZeroFallback ==
    last.op = "directives" =>
        \A k \in Complete :
            LET d == Emitted[k]
                p == Descriptors[k]
            IN  /\ (d.value # <<>> /\ d.value[1] \in last.resolved)
                      => p[2] = <<Tok("str", transform_scoped(d.value[1], last.resolved)[1])>>
                /\ (d.value # <<>> /\ d.value[1] \notin last.resolved) => p[2] = <<VoidZero>>
                /\ (Len(p) >= 2 /\ p[2] = <<VoidZero>>)
                      => (d.value = <<>> \/ d.value[1] \notin last.resolved)

\* a directive with a value the resolver returned nothing for
C8_Witness ==
    /\ last.op = "directives" /\ dpc = "ready"
    /\ Len(Descriptors) = 1
    /\ Emitted[1].value = <<X>> /\ X \notin last.resolved
    /\ Descriptors[1][2] = <<VoidZero>>

-----------------------------------------------------------------------------
(* The markup parser: crates/fervid/src/parser/core.rs.  The input is a    *)
(* sequence of characters; a parser returns Ok(rest, value) or Err, and in  *)
(* both cases what it printed on the way.                                   *)

Ok(rest, val, log) == [ok |-> TRUE, rest |-> rest, val |-> val, log |-> log]

Err(log) == [ok |-> FALSE, rest |-> <<>>, val |-> <<>>, log |-> log]

StartsWith(input, lit) == Len(input) >= Len(lit) /\ SubSeq(input, 1, Len(lit)) = lit

Drop(input, n) == SubSeq(input, n + 1, Len(input))

\* nom::bytes::complete::tag
tag(lit, input) == IF StartsWith(input, lit) THEN Ok(Drop(input, Len(lit)), lit, <<>>) ELSE Err(<<>>)

\* the length of the longest prefix of input made of characters of S
PrefixLen(input, S) ==
    LET stops == {i \in 1..Len(input) : input[i] \notin S}
    IN  IF stops = {} THEN Len(input) ELSE (CHOOSE i \in stops : \A j \in stops : i <= j) - 1

NameChars == {"a", "b", "d", "i", "n", "p", "r", "s", "v", "-"}

\* html_utils::html_name: one or more name characters
html_name(input) ==
    LET n == PrefixLen(input, NameChars)
    IN  IF n = 0 THEN Err(<<>>) ELSE Ok(Drop(input, n), SubSeq(input, 1, n), <<>>)

\* html_utils::space0: zero or more whitespace characters
space0(input) ==
    LET n == PrefixLen(input, Whitespace)
    IN  Ok(Drop(input, n), SubSeq(input, 1, n), <<>>)

\* attributes::parse_attributes on a tag that has no attributes
parse_attributes(input) == Ok(input, <<>>, <<>>)

VoidTags == {<<"b", "r">>}

\* html_utils::classify_element_kind
classify_element_kind(tag_name) == IF tag_name \in VoidTags THEN "Void" ELSE "Normal"

StartingTag(tag_name, is_self_closing) ==
    [tag_name |-> tag_name, attributes |-> <<>>, is_self_closing |-> is_self_closing,
     kind |-> classify_element_kind(tag_name)]

NoTag == [tag_name |-> <<>>, attributes |-> <<>>, is_self_closing |-> FALSE, kind |-> "Normal"]

\* parser::structs::Node
PElementNode(starting_tag, children) ==
    [kind |-> "ElementNode", value |-> <<>>, starting_tag |-> starting_tag,
     children |-> children]
PTextNode(v) == [kind |-> "TextNode", value |-> v, starting_tag |-> NoTag, children |-> <<>>]
PCommentNode(v) ==
    [kind |-> "CommentNode", value |-> v, starting_tag |-> NoTag, children |-> <<>>]
PDynamicExpression(v) ==
    [kind |-> "DynamicExpression", value |-> v, starting_tag |-> NoTag, children |-> <<>>]

\* lines 20-41
parse_element_starting_tag(input) ==
    LET lt == tag(<<"<">>, input)
        name == html_name(lt.rest)
        attrs == parse_attributes(name.rest)
        sp == space0(attrs.rest)
        gt == tag(<<">">>, sp.rest)
        slash_gt == tag(<<"/", ">">>, sp.rest)
    IN  IF ~lt.ok THEN Err(<<>>)
        ELSE IF ~name.ok THEN Err(<<>>)
        ELSE IF gt.ok THEN Ok(gt.rest, StartingTag(name.val, FALSE), <<>>)
        ELSE IF slash_gt.ok THEN Ok(slash_gt.rest, StartingTag(name.val, TRUE), <<>>)
        ELSE Err(<<>>)

\* lines 43-50
parse_element_end_tag(input) ==
    LET open == tag(<<"<", "/">>, input)
        name == html_name(open.rest)
        sp == space0(name.rest)
        gt == tag(<<">">>, sp.rest)
    IN  IF open.ok /\ name.ok /\ gt.ok THEN Ok(gt.rest, name.val, <<>>) ELSE Err(<<>>)

\* the first 1-based index at which lit occurs in input, 0 if none
Find(input, lit) ==
    LET hits == {i \in 1..Len(input) : StartsWith(Drop(input, i - 1), lit)}
    IN  IF hits = {} THEN 0 ELSE CHOOSE i \in hits : \A j \in hits : i <= j

\* lines 53-60: {{ expression }}, the expression trimmed
parse_dynamic_expression_node(input) ==
    LET open == tag(<<"{", "{">>, input)
        at == Find(open.rest, <<"}", "}">>)
    IN  IF ~open.ok \/ at <= 1 THEN Err(<<>>)
        ELSE Ok(Drop(open.rest, at + 1),
                PDynamicExpression(trim(SubSeq(open.rest, 1, at - 1))), <<>>)

\* lines 130-138
parse_comment_node(input) ==
    LET open == tag(<<"<", "!", "-", "-">>, input)
        at == Find(open.rest, <<"-", "-", ">">>)
    IN  IF ~open.ok \/ at = 0 THEN Err(<<>>)
        ELSE Ok(Drop(open.rest, at + 2), PCommentNode(SubSeq(open.rest, 1, at - 1)), <<>>)

\* lines 102-128: the text up to the next `<` or `{{`
parse_text_node(input) ==
    LET stops == {i \in 1..Len(input) :
                    \/ input[i] = "<"
                    \/ input[i] = "{" /\ i < Len(input) /\ input[i + 1] = "{"}
        bytes_taken == IF stops = {} THEN Len(input)
                       ELSE (CHOOSE i \in stops : \A j \in stops : i <= j) - 1
    IN  IF bytes_taken = 0 THEN Err(<<>>)
        ELSE Ok(Drop(input, bytes_taken), PTextNode(SubSeq(input, 1, bytes_taken)), <<>>)

\* the line printed at lines 88-90 and 172-174
Mismatch(starting_tag, end_tag) ==
    IF end_tag # starting_tag.tag_name
    THEN <<[start_tag |-> starting_tag.tag_name, end_tag |-> end_tag]>>
    ELSE <<>>

RECURSIVE parse_element_node(_)
RECURSIVE parse_node_children(_)

\* nom::branch::alt over the four node parsers: the first that succeeds
alt(dyn, cmt, el, txt) ==
    IF dyn.ok THEN dyn
    ELSE IF cmt.ok THEN cmt
    ELSE IF el.ok THEN el
    ELSE IF txt.ok THEN Ok(txt.rest, txt.val, el.log)
    ELSE Err(el.log)

\* lines 199-204: the alternatives, tried in order
parse_node(input) ==
    alt(parse_dynamic_expression_node(input), parse_comment_node(input),
        parse_element_node(input), parse_text_node(input))

\* nom::multi::many0, the item r parsed and `more` the items after it
many0_push(r, more) ==
    IF more.ok THEN Ok(more.rest, <<r.val>> \o more.val, r.log \o more.log)
    ELSE Err(r.log \o more.log)

\* nom::multi::many0 stops at the first error of its parser and fails if the
\* parser succeeds without consuming input
many0_children(input, r) ==
    IF ~r.ok THEN Ok(input, <<>>, r.log)
    ELSE IF Len(r.rest) = Len(input) THEN Err(r.log)
    ELSE many0_push(r, parse_node_children(r.rest))

\* lines 198-205
parse_node_children(input) == many0_children(input, parse_node(input))

\* lines 84-99 and 168-179: the end tag, the diagnostic, the node
element_end(st, kids, end) ==
    IF ~end.ok THEN Err(kids.log)
    ELSE Ok(end.rest, PElementNode(st.val, kids.val), kids.log \o Mismatch(st.val, end.val))

\* lines 81-84 and 166-168
element_body(st, kids) ==
    IF ~kids.ok THEN Err(kids.log)
    ELSE element_end(st, kids, parse_element_end_tag(kids.rest))

\* lines 68-81
element_after_tag(st) ==
    IF ~st.ok THEN Err(<<>>)
    ELSE IF st.val.kind = "Void" \/ st.val.is_self_closing
    THEN Ok(st.rest, PElementNode(st.val, <<>>), <<>>)
    ELSE element_body(st, parse_node_children(st.rest))

\* lines 65-100
parse_element_node(input) == element_after_tag(parse_element_starting_tag(input))

\* lines 144-166
root_after_tag(st) ==
    IF ~st.ok THEN Err(<<>>) ELSE element_body(st, parse_node_children(st.rest))

\* lines 140-180
parse_root_block(input) == root_after_tag(parse_element_starting_tag(trim_start(input)))

RECURSIVE parse_sfc(_)

many0_roots(input, r) ==
    IF ~r.ok THEN Ok(input, <<>>, r.log)
    ELSE IF Len(r.rest) = Len(input) THEN Err(r.log)
    ELSE many0_push(r, parse_sfc(r.rest))

\* lines 194-196: many0(parse_root_block)
parse_sfc(input) == many0_roots(input, parse_root_block(input))

-----------------------------------------------------------------------------
(* Parser inputs and state machine *)

Fragments ==
    {<<"<", "d", "i", "v", ">">>, <<"<", "s", "p", "a", "n", ">">>,
     <<"<", "/", "d", "i", "v", ">">>, <<"<", "/", "s", "p", "a", "n", ">">>,
     <<"<", "b", "r", ">">>, <<"x", " ">>, <<"{", "{", " ", "e", " ", "}", "}">>,
     <<"<", "!", "-", "-", "c", "-", "-", ">">>,
     <<"<", "p", ">", "<", "/", "p", ">">>}

RECURSIVE Concat(_)
Concat(ss) == IF ss = <<>> THEN <<>> ELSE Head(ss) \o Concat(Tail(ss))

Sources == {Concat(fs) : fs \in SeqsUpTo(Fragments, MaxFragments)}

InitParse ==
    /\ OptIdle
    /\ DirIdle
    /\ TransIdle
    /\ ppc = "source"
    /\ source \in Sources
    /\ parsed = NotParsed

\* parse_sfc on the source text
ParseSfc ==
    /\ ppc = "source"
    /\ ppc' = "done"
    /\ parsed' = parse_sfc(source)
    /\ UNCHANGED source
    /\ UNCHANGED notParseVars

NextParse == ParseSfc

SpecParse == InitParse /\ [][NextParse]_vars

-----------------------------------------------------------------------------
(* Parser claims *)

DivSpanDiv ==
    <<"<", "d", "i", "v", ">">> \o <<"<", "s", "p", "a", "n", ">">>
        \o <<"<", "/", "d", "i", "v", ">">>

PBlock == <<"<", "p", ">", "<", "/", "p", ">">>

RECURSIVE HasElement(_, _)
\* the node, or a node below it, is an element named tag_name
HasElement(node, tag_name) ==
    /\ node.kind = "ElementNode"
    /\ \/ node.starting_tag.tag_name = tag_name
       \/ \E i \in 1..Len(node.children) : HasElement(node.children[i], tag_name)

TreeHas(tag_name) ==
    parsed.ok /\ \E i \in 1..Len(parsed.val) : HasElement(parsed.val[i], tag_name)

\* C9: an end tag that does not match the open element is a diagnostic only:
\* parse_sfc on `<div><span></div>` returns a tree that contains the span
\* element, and a root block that follows the mismatch is still parsed into
\* the result.
C9_MismatchTolerated ==
    ppc = "done" =>
        /\ source = DivSpanDiv => TreeHas(<<"s", "p", "a", "n">>)
        /\ source = DivSpanDiv \o PBlock => TreeHas(<<"p">>)

-----------------------------------------------------------------------------
(* Builtin codegen: crates/fervid_codegen/src/builtins/transition.rs.  An  *)
(* expression is a record; an Option is a sequence of length <= 1.          *)

\* how many attributes a <transition> carries
MaxAttributes == 2
\* how many children a <transition> has
MaxSlotChildren == 2

\* fervid_core::AttributeOrBinding::RegularAttribute { name, value }
RegularAttribute(name, value) ==
    [kind |-> "RegularAttribute", name |-> name, value |-> value]

\* fervid_core::AttributeOrBinding::VBind(VBindDirective { argument, value, .. })
VBind(argument, value) == [kind |-> "VBind", name |-> argument, value |-> value]

\* ElementNode { kind: Builtin(Transition), starting_tag { tag_name, attributes }, children }
TransitionElement(attributes, children) ==
    [tag_name |-> "transition", attributes |-> attributes, children |-> children]

\* swc Expr, the kinds generate_transition deals with
IdentExpr(sym) == [kind |-> "ident", sym |-> sym, props |-> <<>>, children |-> <<>>, num |-> 0]
NullExpr == [kind |-> "null", sym |-> <<>>, props |-> <<>>, children |-> <<>>, num |-> 0]
NumExpr(n) == [kind |-> "num", sym |-> <<>>, props |-> <<>>, children |-> <<>>, num |-> n]
ObjectExpr(props) ==
    [kind |-> "object", sym |-> <<>>, props |-> props, children |-> <<>>, num |-> 0]
\* { "default": _withCtx(() => [children]), _: 1 }
SlotsExpr(children) ==
    [kind |-> "slots", sym |-> <<>>, props |-> <<>>, children |-> children, num |-> 1]

\* the identifier an import is known by: _Transition, _createVNode, ...
ImportIdent(import) == <<"_", import>>

\* CodegenContext::get_and_add_import_ident: the import is registered and
\* its identifier returned
get_and_add_import_ident(registry, import) ==
    [imports |-> registry \cup {import}, ident |-> ImportIdent(import)]

\* one property of the attributes object: foo:"bar" or baz:qux
builtin_attr(attr) ==
    [key |-> attr.name, value |-> attr.value, quoted |-> attr.kind = "RegularAttribute"]

\* CodegenContext::generate_builtin_attrs: None without attributes
generate_builtin_attrs(attributes) ==
    IF attributes = <<>> THEN <<>>
    ELSE <<ObjectExpr([i \in 1..Len(attributes) |-> builtin_attr(attributes[i])] \o <<>>)>>

\* CodegenContext::generate_builtin_slots: None without children, else the
\* children as the default slot
generate_builtin_slots(registry, el) ==
    IF el.children = <<>> THEN [imports |-> registry, slots |-> <<>>]
    ELSE [imports |-> registry \cup {"WithCtx"}, slots |-> <<SlotsExpr(el.children)>>]

\* CodegenContext::generate_componentlike: createVNode(identifier, attrs?,
\* slots?, patch_flag?) with the trailing absent arguments left out and an
\* absent argument before a present one written as null
generate_componentlike(registry, identifier, attrs, slots, patch_flag, create_block) ==
    LET import == IF create_block THEN "CreateBlock" ELSE "CreateVNode"
        callee == get_and_add_import_ident(registry, import)
        has_flag == patch_flag # 0
        attrs_arg == IF attrs # <<>> THEN attrs
                     ELSE IF slots # <<>> \/ has_flag THEN <<NullExpr>> ELSE <<>>
        slots_arg == IF slots # <<>> THEN slots
                     ELSE IF has_flag THEN <<NullExpr>> ELSE <<>>
        flag_arg == IF has_flag THEN <<NumExpr(patch_flag)>> ELSE <<>>
    IN  [imports |-> callee.imports,
         expr |-> [callee |-> callee.ident,
                   args |-> <<identifier>> \o attrs_arg \o slots_arg \o flag_arg]]

\* what generate_transition hands to generate_componentlike (lines 27-34)
Passed(identifier, attrs, slots, patch_flag, create_block) ==
    [identifier |-> identifier, attrs |-> attrs, slots |-> slots,
     patch_flag |-> patch_flag, create_block |-> create_block]

\* the call of lines 27-34 and its result
componentlike(registry, p) ==
    LET r == generate_componentlike(registry, p.identifier, p.attrs, p.slots,
                                    p.patch_flag, p.create_block)
    IN  [imports |-> r.imports, passed |-> p, expr |-> r.expr]

\* generate_transition with the attributes and the slots passed in each
\* other's position
generate_transition_swapped(registry, el) ==
    LET transition_identifier == get_and_add_import_ident(registry, "Transition")
        transition_attrs == generate_builtin_attrs(el.attributes)
        transition_slots == generate_builtin_slots(transition_identifier.imports, el)
    IN  componentlike(transition_slots.imports,
                      Passed(IdentExpr(transition_identifier.ident), transition_slots.slots,
                             transition_attrs, 0, FALSE))

\* lines 10-35
generate_transition(registry, el) ==
    LET transition_identifier == get_and_add_import_ident(registry, "Transition")
        transition_attrs == generate_builtin_attrs(el.attributes)
        transition_slots == generate_builtin_slots(transition_identifier.imports, el)
        patch_flag == 0
    IN  componentlike(transition_slots.imports,
                      Passed(IdentExpr(transition_identifier.ident), transition_attrs,
                             transition_slots.slots, patch_flag, FALSE))

-----------------------------------------------------------------------------
(* Builtin codegen inputs and state machine *)

TransitionAttributes ==
    {RegularAttribute("foo", "bar"), VBind("baz", "qux"), RegularAttribute("name", "fade")}

TransitionChildren == {TextNode(<<"f", "o", "o", "b", "a", "r">>), Div, Dyn}

TransitionElements ==
    {TransitionElement(a, c) : a \in SeqsUpTo(TransitionAttributes, MaxAttributes),
                               c \in SeqsUpTo(TransitionChildren, MaxSlotChildren)}

\* the registry of a fresh context (the tests) and of one already in use
Registries == {{}, {"Transition"}, {"CreateVNode", "ResolveComponent"}}

InitTransition ==
    /\ OptIdle
    /\ DirIdle
    /\ ParseIdle
    /\ tpc = "element"
    /\ element_node \in TransitionElements
    /\ used_imports \in Registries
    /\ passed = NotPassed
    /\ out = NoExpr

\* generate_transition on the element
GenerateTransition ==
    /\ tpc = "element"
    /\ LET r == generate_transition(used_imports, element_node)
       IN  /\ used_imports' = r.imports
           /\ passed' = r.passed
           /\ out' = r.expr
    /\ tpc' = "done"
    /\ UNCHANGED element_node
    /\ UNCHANGED notTransVars

NextTransition == GenerateTransition

SpecTransition == InitTransition /\ [][NextTransition]_vars

-----------------------------------------------------------------------------
(* Builtin codegen claims *)

HasAttributes == element_node.attributes # <<>>

HasChildren == element_node.children # <<>>

\* the third argument wraps the element's children as the default slot
DefaultSlotAt(i) == out.args[i].kind = "slots" /\ out.args[i].children = element_node.children

\* the second argument is the object made of the element's attributes
AttributesAt(i) ==
    /\ out.args[i].kind = "object"
    /\ Len(out.args[i].props) = Len(element_node.attributes)
    /\ \A k \in 1..Len(element_node.attributes) :
          out.args[i].props[k].key = element_node.attributes[k].name

=============================================================================
